---- MODULE Spec2Model ----
(***************************************************************************)
(* Fulfillment sticker generation: the order-to-sticker transformer        *)
(* (order_processor.py), the Avery 5160 label layout and label text        *)
(* (pdf_generator.py), and the daily run that ties them to the Shopify     *)
(* session and the e-mail (main.py, shopify_connector.py, email_sender.py).*)
(*                                                                         *)
(* Python values are tagged records, so that None, a missing dict key and  *)
(* a present value stay distinct: Absent (no such key), Null (None),       *)
(* PyStr(s), PyInt(n), PyList(l), PyDict(d), EmptyDict ({}).  A Python str is a    *)
(* sequence of one-character strings, so that lower(), strip(),            *)
(* startswith() and the "|" of the address key are computed, not assumed.  *)
(***************************************************************************)
EXTENDS Integers, Sequences, FiniteSets, TLC

VARIABLES
    local_cities_arg,   \* the local_cities argument given to OrderProcessor()
    local_cities,       \* OrderProcessor.local_cities
    orders,             \* the argument of create_stickers_from_orders
    pc,                 \* where the run stands
    idx,                \* orders already taken by the loop of create_stickers_from_orders
    stickers,           \* the sticker list under construction / returned
    warnings,           \* 1-based positions of the orders reported as skipped
    draw_idx,           \* stickers already drawn by _draw_stickers
    pages,              \* pages closed on the canvas (showPage calls, explicit or by save)
    page_code,          \* TRUE when the open page holds drawing code
    show_at,            \* sticker indices at which _draw_stickers called showPage
    placements,         \* one record per drawn sticker
    printed_pages,      \* the "Pages:" figure printed by generate_pdf, -1 before
    labels,             \* what _draw_single_sticker drew, one record per drawn sticker
    main_pc,            \* where run_sticker_generation stands, "off" outside of it
    auto_email,         \* the auto_email argument of run_sticker_generation
    shop_orders,        \* the unfulfilled orders the shop holds
    session,            \* the Shopify session: "none", "open" or "closed"
    closes,             \* calls of ShopifyConnector.close
    email_attempts,     \* entries into the e-mail block of run_sticker_generation
    email_outcome,      \* "none", "sent", "refused" (send_pdf False) or "error" (raised)
    order_count,        \* the order_count given to send_pdf, -1 while not called
    result              \* "running", "path" (return pdf_path), "none" (return None), "exit"

mainVars == << main_pc, auto_email, shop_orders, session, closes, email_attempts,
               email_outcome, order_count, result >>

vars == << local_cities_arg, local_cities, orders, pc, idx, stickers, warnings,
           draw_idx, pages, page_code, show_at, placements, printed_pages, labels,
           mainVars >>

-----------------------------------------------------------------------------
(* Python values *)

Absent == [tag |-> "absent"]
Null == [tag |-> "null"]
EmptyDict == [tag |-> "dict0"]
PyStr(s) == [tag |-> "str", v |-> s]
PyInt(n) == [tag |-> "int", v |-> n]
PyList(l) == [tag |-> "list", v |-> l]
PyDict(d) == [tag |-> "dict", v |-> d]

\* bool(x): None, '', [], {} and 0 are falsy
Truthy(x) ==
    CASE x.tag = "str" -> Len(x.v) > 0
      [] x.tag = "list" -> Len(x.v) > 0
      [] x.tag = "int" -> x.v # 0
      [] x.tag = "dict" -> TRUE
      [] OTHER -> FALSE

\* d.get(k, default) on a dict: the default only when the key is missing
DictGet(d, k, default) ==
    IF d.tag = "dict0" THEN default
    ELSE IF d.v[k].tag = "absent" THEN default ELSE d.v[k]

IsDict(d) == d.tag \in {"dict", "dict0"}

-----------------------------------------------------------------------------
(* Python str operations *)

UpperChars == << "A","B","C","D","E","F","G","H","I","J","K","L","M",
                 "N","O","P","Q","R","S","T","U","V","W","X","Y","Z" >>
LowerChars == << "a","b","c","d","e","f","g","h","i","j","k","l","m",
                 "n","o","p","q","r","s","t","u","v","w","x","y","z" >>
Whitespace == {" ", "\t", "\n", "\r"}

LowerChar(c) ==
    IF \E i \in DOMAIN UpperChars : UpperChars[i] = c
    THEN LowerChars[CHOOSE i \in DOMAIN UpperChars : UpperChars[i] = c]
    ELSE c

UpperChar(c) ==
    IF \E i \in DOMAIN LowerChars : LowerChars[i] = c
    THEN UpperChars[CHOOSE i \in DOMAIN LowerChars : LowerChars[i] = c]
    ELSE c

lower(s) == [i \in 1..Len(s) |-> LowerChar(s[i])]
upper(s) == [i \in 1..Len(s) |-> UpperChar(s[i])]

RECURSIVE lstrip(_)
lstrip(s) ==
    IF s = << >> THEN s
    ELSE IF s[1] \in Whitespace THEN lstrip(Tail(s)) ELSE s

RECURSIVE rstrip(_)
rstrip(s) ==
    IF s = << >> THEN s
    ELSE IF s[Len(s)] \in Whitespace THEN rstrip(SubSeq(s, 1, Len(s) - 1)) ELSE s

strip(s) == rstrip(lstrip(s))

\* a variant that looks for the prefix anywhere in s
startswith_anywhere(s, prefix) ==
    \E i \in 1..(Len(s) - Len(prefix) + 1) : SubSeq(s, i, i + Len(prefix) - 1) = prefix

startswith(s, prefix) ==
    Len(s) >= Len(prefix) /\ SubSeq(s, 1, Len(prefix)) = prefix

Digits == << "0","1","2","3","4","5","6","7","8","9" >>

RECURSIVE NatStr(_)
NatStr(n) == IF n < 10 THEN << Digits[n + 1] >> ELSE NatStr(n \div 10) \o << Digits[(n % 10) + 1] >>

\* str(x) as an f-string field formats it
Format(x) ==
    CASE x.tag = "str" -> x.v
      [] x.tag = "int" -> IF x.v < 0 THEN << "-" >> \o NatStr(0 - x.v) ELSE NatStr(x.v)
      [] x.tag = "null" -> << "N","o","n","e" >>
      [] OTHER -> << "?" >>

RECURSIVE join(_, _)
join(sep, parts) ==
    IF parts = << >> THEN << >>
    ELSE IF Len(parts) = 1 THEN parts[1]
    ELSE parts[1] \o sep \o join(sep, Tail(parts))


-----------------------------------------------------------------------------
(* order_processor.py *)

Lombard == << "L","o","m","b","a","r","d" >>
GlenEllyn == << "G","l","e","n"," ","E","l","l","y","n" >>
Addison == << "A","d","d","i","s","o","n" >>
Wheaton == << "W","h","e","a","t","o","n" >>
VillaPark == << "V","i","l","l","a"," ","P","a","r","k" >>

LOCAL_DELIVERY_CITIES == << Lombard, GlenEllyn, Addison, Wheaton, VillaPark >>

UnknownCustomer == << "U","n","k","n","o","w","n"," ","C","u","s","t","o","m","e","r" >>
UnknownProduct == << "U","n","k","n","o","w","n"," ","P","r","o","d","u","c","t" >>
Unknown == << "U","n","k","n","o","w","n" >>
DefaultTitle == << "D","e","f","a","u","l","t"," ","T","i","t","l","e" >>
VariantSep == << " ", "/", " " >>

\* OrderProcessor.__init__: (local_cities or LOCAL_DELIVERY_CITIES), lower-cased
OrderProcessorInit(arg) ==
    LET chosen == IF Truthy(arg) THEN arg.v ELSE LOCAL_DELIVERY_CITIES
    IN [i \in 1..Len(chosen) |-> lower(chosen[i])]

InList(x, l) == \E i \in 1..Len(l) : l[i] = x

\* a variant that forgets strip()
is_local_delivery_nostrip(cities, city) ==
    IF ~Truthy(city) THEN FALSE
    ELSE InList(lower(city.v), cities)

\* OrderProcessor.is_local_delivery, on the processor's list cities
is_local_delivery(cities, city) ==
    IF ~Truthy(city) THEN FALSE
    ELSE InList(strip(lower(city.v)), cities)

\* the property loop of _process_single_order: property_parts, or a raise
RECURSIVE PropertyParts(_)
PropertyParts(props) ==
    IF props = << >> THEN [raised |-> FALSE, parts |-> << >>]
    ELSE
        LET prop == props[1]
            prop_name == DictGet(prop, "name", PyStr(<< >>))
            prop_value == DictGet(prop, "value", PyStr(<< >>))
            rest == PropertyParts(Tail(props))
        IN  IF ~Truthy(prop_value) THEN rest
            ELSE IF prop_name.tag # "str" THEN [raised |-> TRUE, parts |-> << >>]
            ELSE IF startswith(prop_name.v, << "_" >>) THEN rest
            ELSE IF rest.raised THEN rest
            ELSE [raised |-> FALSE, parts |-> << prop_value.v >> \o rest.parts]

\* variant_info of one line item, or a raise
VariantInfo(item) ==
    LET variant_title == DictGet(item, "variant_title", PyStr(<< >>))
        properties == DictGet(item, "properties", PyList(<< >>))
    IN  IF properties.tag # "list" THEN [raised |-> TRUE, info |-> << >>]
        ELSE
            LET pp == PropertyParts(properties.v)
                head == IF Truthy(variant_title) /\ variant_title.v # DefaultTitle
                        THEN << variant_title.v >> ELSE << >>
            IN  IF pp.raised THEN [raised |-> TRUE, info |-> << >>]
                ELSE [raised |-> FALSE, info |-> join(VariantSep, head \o pp.parts)]

\* a variant that rounds a non-positive quantity up to one unit
Units_at_least_one(n, sticker) == [i \in 1..(IF n < 1 THEN 1 ELSE n) |-> sticker]

\* range(quantity) copies of one StickerData
Units(n, sticker) == [i \in 1..n |-> sticker]

\* the line-item loop of _process_single_order
RECURSIVE ItemStickers(_, _)
ItemStickers(items, base) ==
    IF items = << >> THEN [raised |-> FALSE, stickers |-> << >>]
    ELSE
        LET item == items[1]
            quantity == DictGet(item, "quantity", PyInt(1))
            product_name == DictGet(item, "name", PyStr(UnknownProduct))
            vi == VariantInfo(item)
            rest == ItemStickers(Tail(items), base)
        IN  IF ~IsDict(item) \/ vi.raised \/ quantity.tag # "int" \/ rest.raised
            THEN [raised |-> TRUE, stickers |-> << >>]
            ELSE [raised |-> FALSE,
                  stickers |->
                      Units(quantity.v,
                            [order_name |-> base.order_name,
                             customer_name |-> base.customer_name,
                             address_line1 |-> base.address_line1,
                             address_line2 |-> base.address_line2,
                             city |-> base.city,
                             state |-> base.state,
                             zip_code |-> base.zip_code,
                             quantity |-> 1,
                             product_name |-> product_name,
                             variant_info |-> vi.info,
                             requires_shipping |-> base.requires_shipping,
                             sticker_number |-> 1,
                             total_for_address |-> 1])
                      \o rest.stickers]

\* a variant that tests "shipping is None" instead of "not shipping"
NoShippingAddress_none_only(shipping) == shipping.tag = "null"

\* "if not shipping" and "if not line_items"
NoShippingAddress(shipping) == ~Truthy(shipping)
NoLineItems(line_items) == ~Truthy(line_items)

\* OrderProcessor._process_single_order: the stickers of one order, whether it
\* was skipped with a warning, or whether an exception left the method
process_single_order(cities, order) ==
    LET order_name == DictGet(order, "name", PyStr(Unknown))
        customer == DictGet(order, "customer", EmptyDict)
        shipping == DictGet(order, "shipping_address", EmptyDict)
        line_items == DictGet(order, "line_items", PyList(<< >>))
        none == [raised |-> FALSE, skipped |-> FALSE, stickers |-> << >>]
    IN  IF ~IsDict(customer) THEN [none EXCEPT !.raised = TRUE]
        ELSE IF NoShippingAddress(shipping) THEN [none EXCEPT !.skipped = TRUE]
        ELSE IF NoLineItems(line_items) THEN [none EXCEPT !.skipped = TRUE]
        ELSE
            LET stripped == strip(Format(DictGet(customer, "first_name", PyStr(<< >>)))
                                  \o << " " >>
                                  \o Format(DictGet(customer, "last_name", PyStr(<< >>))))
                city == DictGet(shipping, "city", PyStr(<< >>))
                base == [order_name |-> order_name,
                         customer_name |-> IF stripped = << >> THEN UnknownCustomer
                                           ELSE stripped,
                         address_line1 |-> DictGet(shipping, "address1", PyStr(<< >>)),
                         address_line2 |-> DictGet(shipping, "address2", PyStr(<< >>)),
                         city |-> city,
                         state |-> DictGet(shipping, "province_code",
                                           DictGet(shipping, "province", PyStr(<< >>))),
                         zip_code |-> DictGet(shipping, "zip", PyStr(<< >>)),
                         requires_shipping |-> ~is_local_delivery(cities, city)]
                made == ItemStickers(line_items.v, base)
            IN  IF made.raised THEN [none EXCEPT !.raised = TRUE]
                ELSE [none EXCEPT !.stickers = made.stickers]

\* the grouping key of _calculate_sticker_numbers
AddressKey(s) ==
    s.customer_name \o << "|" >> \o Format(s.address_line1) \o << "|" >> \o Format(s.city)

\* address_groups[key]: the positions of the stickers filed under key, in list order
RECURSIVE GroupOf(_, _, _)
GroupOf(list, key, i) ==
    IF i > Len(list) THEN << >>
    ELSE (IF AddressKey(list[i]) = key THEN << i >> ELSE << >>) \o GroupOf(list, key, i + 1)

IndexIn(seq, x) == CHOOSE n \in 1..Len(seq) : seq[n] = x

\* OrderProcessor._calculate_sticker_numbers
calculate_sticker_numbers(list) ==
    [i \in 1..Len(list) |->
        LET group == GroupOf(list, AddressKey(list[i]), 1)
        IN  [list[i] EXCEPT !.sticker_number = IndexIn(group, i),
                            !.total_for_address = Len(group)]]

\* the loop of create_stickers_from_orders over a whole list
RECURSIVE CollectStickers(_, _)
CollectStickers(cities, os) ==
    IF os = << >> THEN [raised |-> FALSE, stickers |-> << >>]
    ELSE
        LET r == process_single_order(cities, os[1])
        IN  IF r.raised THEN [raised |-> TRUE, stickers |-> << >>]
            ELSE LET rest == CollectStickers(cities, Tail(os))
                 IN  IF rest.raised THEN rest
                     ELSE [raised |-> FALSE, stickers |-> r.stickers \o rest.stickers]

\* OrderProcessor.create_stickers_from_orders as a function of its argument
create_stickers_from_orders(cities, os) ==
    LET c == CollectStickers(cities, os)
    IN  IF c.raised THEN c
        ELSE [raised |-> FALSE, stickers |-> calculate_sticker_numbers(c.stickers)]

-----------------------------------------------------------------------------
(* pdf_generator.py: the Avery 5160 sheet.  Lengths are in thousandths of a *)
(* point (reportlab's inch is 72 points), so every product below is exact.   *)

Inch == 72000

\* a variant of the sheet with a left margin of a quarter inch
AVERY_5160_quarter_margin ==
    [page_width |-> (85 * Inch) \div 10,
     page_height |-> 11 * Inch,
     label_width |-> (2625 * Inch) \div 1000,
     label_height |-> Inch,
     columns |-> 3,
     rows |-> 10,
     top_margin |-> (5 * Inch) \div 10,
     left_margin |-> (25 * Inch) \div 100,
     column_gap |-> (125 * Inch) \div 1000,
     row_gap |-> 0]

AVERY_5160 ==
    [page_width |-> (85 * Inch) \div 10,
     page_height |-> 11 * Inch,
     label_width |-> (2625 * Inch) \div 1000,
     label_height |-> Inch,
     columns |-> 3,
     rows |-> 10,
     top_margin |-> (5 * Inch) \div 10,
     left_margin |-> (1875 * Inch) \div 10000,
     column_gap |-> (125 * Inch) \div 1000,
     row_gap |-> 0]

\* a variant that moves the third column by half as much
ThirdColumnOffset_half == (157 * Inch) \div 2000

\* the x += 0.157 * inch of the third column
ThirdColumnOffset == (157 * Inch) \div 1000

\* a variant that fills the sheet column by column
Placement_column_major(spec, i) ==
    LET labels_per_page == spec.columns * spec.rows
        position_on_page == i % labels_per_page
        row == position_on_page % spec.rows
        col == position_on_page \div spec.rows
        x0 == spec.left_margin + col * (spec.label_width + spec.column_gap)
    IN  [index |-> i,
         page_num |-> i \div labels_per_page,
         on_page |-> 0,
         new_page |-> (i > 0 /\ position_on_page = 0),
         row |-> row,
         col |-> col,
         x |-> IF col = 2 THEN x0 + ThirdColumnOffset ELSE x0,
         y |-> spec.page_height - spec.top_margin
               - row * (spec.label_height + spec.row_gap) - spec.label_height]

\* the body of the loop of _draw_stickers for the sticker at 0-based index i
Placement(spec, i) ==
    LET labels_per_page == spec.columns * spec.rows
        page_num == i \div labels_per_page
        position_on_page == i % labels_per_page
        row == position_on_page \div spec.columns
        col == position_on_page % spec.columns
        x0 == spec.left_margin + col * (spec.label_width + spec.column_gap)
    IN  [index |-> i,
         page_num |-> page_num,
         on_page |-> 0,
         new_page |-> (i > 0 /\ position_on_page = 0),
         row |-> row,
         col |-> col,
         x |-> IF col = 2 THEN x0 + ThirdColumnOffset ELSE x0,
         y |-> spec.page_height - spec.top_margin
               - row * (spec.label_height + spec.row_gap) - spec.label_height]

\* a variant that counts a page too many on a full sheet
PrintedPages_full_sheet(n) == (n \div 30) + 1

\* the "Pages:" figure of generate_pdf; Python's // rounds down, as \div does
PrintedPages(n) == ((n - 1) \div 30) + 1

-----------------------------------------------------------------------------
(* pdf_generator.py: the grind type and the text of one label *)

\* GRIND_TYPES, in the order of the list
GRIND_TYPES ==
    << << "W","h","o","l","e"," ","B","e","a","n" >>,
       << "G","r","o","u","n","d"," ","f","o","r"," ","A","u","t","o"," ","D","r","i","p" >>,
       << "G","r","o","u","n","d"," ","A","u","t","o"," ","D","r","i","p" >>,
       << "A","u","t","o"," ","D","r","i","p" >>,
       << "G","r","o","u","n","d"," ","f","o","r"," ","D","r","i","p" >>,
       << "F","r","e","n","c","h"," ","P","r","e","s","s" >>,
       << "G","r","o","u","n","d"," ","f","o","r"," ","F","r","e","n","c","h"," ","P","r","e","s","s" >>,
       << "G","r","o","u","n","d"," ","f","o","r"," ","E","s","p","r","e","s","s","o" >>,
       << "E","s","p","r","e","s","s","o" >> >>

\* the literals of the if-chain of extract_grind_type
whole_bean == << "w","h","o","l","e"," ","b","e","a","n" >>
french_press == << "f","r","e","n","c","h"," ","p","r","e","s","s" >>
auto_drip == << "a","u","t","o"," ","d","r","i","p" >>
for_drip == << "f","o","r"," ","d","r","i","p" >>
espresso == << "e","s","p","r","e","s","s","o" >>

\* the values the if-chain returns
GrindWholeBean == << "W","h","o","l","e"," ","B","e","a","n" >>
GrindFrenchPress == << "F","r","e","n","c","h"," ","P","r","e","s","s" >>
GrindAutoDrip == << "G","r","o","u","n","d"," ","A","u","t","o"," ","D","r","i","p" >>
GrindEspresso == << "G","r","o","u","n","d"," ","E","s","p","r","e","s","s","o" >>

\* the text drawn above a label that ships
ShipMark == << "*","*","S","H","I","P","*","*" >>
\* the tail of a truncated product line
Ellipsis == << ".",".","." >>

\* Python's "sub in text" on str
contains(text, sub) ==
    \E i \in 1..(Len(text) - Len(sub) + 1) : SubSeq(text, i, i + Len(sub) - 1) = sub

\* the if-chain under "if grind.lower() in text_to_check"
normalized_grind(grind) ==
    LET g == lower(grind)
    IN  IF contains(g, whole_bean) THEN GrindWholeBean
        ELSE IF contains(g, french_press) THEN GrindFrenchPress
        ELSE IF contains(g, auto_drip) \/ contains(g, for_drip) THEN GrindAutoDrip
        ELSE IF contains(g, espresso) THEN GrindEspresso
        ELSE grind

\* a variant that returns the last phrase of the list that occurs
extract_grind_type_last_match(variant_info, product_name) ==
    LET text_to_check == lower(variant_info \o << " " >> \o Format(product_name))
        found == {i \in DOMAIN GRIND_TYPES : contains(text_to_check, lower(GRIND_TYPES[i]))}
    IN  IF found = {} THEN Null
        ELSE PyStr(normalized_grind(
                 GRIND_TYPES[CHOOSE i \in found : \A j \in found : j <= i]))

\* extract_grind_type: variant_info is a str, product_name is formatted by the
\* f-string; the loop returns at the first phrase of the list that occurs
extract_grind_type(variant_info, product_name) ==
    LET text_to_check == lower(variant_info \o << " " >> \o Format(product_name))
        found == {i \in DOMAIN GRIND_TYPES : contains(text_to_check, lower(GRIND_TYPES[i]))}
    IN  IF found = {} THEN Null
        ELSE PyStr(normalized_grind(
                 GRIND_TYPES[CHOOSE i \in found : \A j \in found : i <= j]))

\* 0.08 * inch, 0.12 * inch, 0.05 * inch and line_height * 0.95
TextTop == (8 * Inch) \div 100
LineHeight == (12 * Inch) \div 100
TextLeft == (5 * Inch) \div 100
GrindDrop == (95 * LineHeight) \div 100

\* a variant that writes the total before the number
count_text_total_first(sticker) ==
    NatStr(sticker.total_for_address) \o << "/" >> \o NatStr(sticker.sticker_number)

\* count_text = f"{sticker.sticker_number}/{sticker.total_for_address}"
count_text(sticker) ==
    NatStr(sticker.sticker_number) \o << "/" >> \o NatStr(sticker.total_for_address)

\* a variant that keeps forty characters before the dots
product_line_keep_forty(sticker) ==
    LET line == NatStr(sticker.quantity) \o << "-", " " >>
                        \o Format(sticker.product_name)
    IN  IF Len(line) > 40 THEN SubSeq(line, 1, 40) \o Ellipsis
        ELSE line

\* product_line, truncated when it is longer than 40 characters
product_line(sticker) ==
    LET line == NatStr(sticker.quantity) \o << "-", " " >>
                \o Format(sticker.product_name)
    IN  IF Len(line) > 40 THEN SubSeq(line, 1, 37) \o Ellipsis
        ELSE line

\* one drawString: the text, where it is anchored, its baseline and its face;
\* the counter is anchored by its right end (x + label_width - count_width
\* - 0.05 * inch is where a text of count_width starts)
TextLine(text, anchor, at, y, bold, red) ==
    [text |-> text, anchor |-> anchor, at |-> at, y |-> y, bold |-> bold, red |-> red]

\* PDFGenerator._draw_single_sticker: the drawString calls in the order made,
\* and the value extract_grind_type returned
draw_single_sticker(spec, sticker, x, y) ==
    LET top == y + spec.label_height - TextTop
        ship == IF sticker.requires_shipping
                THEN << TextLine(ShipMark, "left", x + TextLeft, top, TRUE, TRUE) >>
                ELSE << >>
        name_y == IF sticker.requires_shipping THEN top - LineHeight ELSE top
        address_y == name_y - LineHeight
        product_y == address_y - LineHeight
        grind_y == product_y - GrindDrop
        grind_type == extract_grind_type(sticker.variant_info, sticker.product_name)
        grind == IF Truthy(grind_type)
                 THEN << TextLine(grind_type.v, "left", x + TextLeft, grind_y, TRUE, FALSE) >>
                 ELSE << >>
    IN  [grind_type |-> grind_type,
         lines |->
            ship
            \o << TextLine(sticker.customer_name, "left", x + TextLeft, name_y, FALSE, FALSE),
                  TextLine(count_text(sticker), "right",
                           x + spec.label_width - TextLeft, name_y, TRUE, FALSE),
                  TextLine(Format(sticker.address_line1) \o << " " >> \o Format(sticker.city),
                           "left", x + TextLeft, address_y, FALSE, FALSE),
                  TextLine(product_line(sticker), "left", x + TextLeft, product_y,
                           FALSE, FALSE) >>
            \o grind]

-----------------------------------------------------------------------------
(* Inputs *)

MkCustomer(first, last) == PyDict([first_name |-> first, last_name |-> last])

MkAddress(address1, city) ==
    PyDict([address1 |-> address1, address2 |-> PyStr(<< >>), city |-> city,
            province_code |-> Absent, province |-> PyStr(<< "I","L" >>),
            zip |-> PyStr(<< "6","0","1","4","8" >>)])

MkProp(name, value) == PyDict([name |-> name, value |-> value])

MkItem(quantity, name, variant_title, properties) ==
    PyDict([quantity |-> quantity, name |-> name, variant_title |-> variant_title,
            properties |-> properties])

MkOrder(name, customer, shipping, line_items) ==
    PyDict([name |-> name, customer |-> customer, shipping_address |-> shipping,
            line_items |-> line_items])

-----------------------------------------------------------------------------
(* Bounds of the checked inputs *)

MaxOrders == 2      \* orders in a batch
MaxQty == 2         \* largest line-item quantity (the smallest is -1)
MaxGroupOrders == 3 \* orders in a batch of the grouping runs
MaxPad == 1         \* whitespace characters put on either side of a city
MaxProps == 2       \* properties of a line item
MaxStickers == 61   \* stickers laid out (two full pages and one label)

-----------------------------------------------------------------------------
(* Batches of orders: one order of any shape among well-formed and skipped ones *)

OrderName(k) == PyStr(<< "#" >> \o NatStr(k))
ProductName(j) == PyStr(<< "p" >> \o NatStr(j))

Ann == PyStr(<< "A","n","n" >>)
Bob == PyStr(<< "B","o","b" >>)
Lee == PyStr(<< "L","e","e" >>)
ElmSt == PyStr(<< "1"," ","E","l","m" >>)

GoodCustomer == MkCustomer(Ann, Lee)
GoodAddress == MkAddress(ElmSt, PyStr(Lombard))

\* line items with the quantities qs, named by position
ItemsOf(qs) ==
    PyList([j \in 1..Len(qs) |-> MkItem(qs[j], ProductName(j), Absent, Absent)])

Body(customer, shipping, line_items) ==
    [customer |-> customer, shipping |-> shipping, line_items |-> line_items]

\* one or two line items of any quantity -1..MaxQty, and lists with a
\* quantity that is missing or None
QtyLists ==
    { << a >> : a \in {PyInt(q) : q \in (0 - 1)..MaxQty} }
    \cup { << a, b >> : a, b \in {PyInt(q) : q \in (0 - 1)..MaxQty} }
    \cup { << Absent >>, << Null >>, << PyInt(1), Null >>, << Null, PyInt(1) >>,
           << Absent, PyInt(0) >> }

\* a property list that is None, a property without a name, a nameless
\* property whose value is empty
OddProperties ==
    { Null,
      PyList(<< MkProp(Null, PyStr(<< "x" >>)) >>),
      PyList(<< MkProp(Null, PyStr(<< >>)) >>),
      PyList(<< MkProp(Null, Null), MkProp(PyStr(<< "g" >>), PyStr(<< "x" >>)) >>) }

RichBodies ==
    { Body(GoodCustomer, GoodAddress, ItemsOf(qs)) : qs \in QtyLists }
    \cup { Body(c, s, l) :
             c \in {GoodCustomer, Null, Absent},
             s \in {GoodAddress, Null, Absent, EmptyDict},
             l \in {ItemsOf(<< PyInt(1) >>), Null, Absent, PyList(<< >>)} }
    \cup { Body(GoodCustomer, GoodAddress,
                PyList(<< MkItem(PyInt(1), ProductName(1), Absent, pr),
                          MkItem(PyInt(1), ProductName(2), Absent, Absent) >>)) :
             pr \in OddProperties }

Companions ==
    { Body(GoodCustomer, GoodAddress, ItemsOf(<< PyInt(1) >>)),
      Body(MkCustomer(Bob, Lee), GoodAddress, ItemsOf(<< PyInt(2), PyInt(1) >>)),
      Body(GoodCustomer, Absent, ItemsOf(<< PyInt(1) >>)),
      Body(GoodCustomer, GoodAddress, PyList(<< >>)) }

OrderAt(k, b) == MkOrder(OrderName(k), b.customer, b.shipping, b.line_items)

\* the batch of the bodies bs, its orders named by position
BatchOf(bs) == [i \in 1..Len(bs) |-> OrderAt(i, bs[i])]

-----------------------------------------------------------------------------
(* The run: OrderProcessor(local_cities).create_stickers_from_orders(orders), *)
(* then PDFGenerator().generate_pdf(stickers) on the list it returned, the    *)
(* empty list included (generate_pdf takes any list).                         *)

Start(arg, batch) ==
    /\ local_cities_arg = arg
    /\ local_cities = OrderProcessorInit(arg)
    /\ orders = batch
    /\ pc = "process"
    /\ idx = 0
    /\ stickers = << >>
    /\ warnings = << >>
    /\ draw_idx = 0
    /\ pages = 0
    /\ page_code = FALSE
    /\ show_at = {}
    /\ placements = << >>
    /\ printed_pages = 0 - 1
    /\ labels = << >>
    /\ main_pc = "off"
    /\ auto_email = FALSE
    /\ shop_orders = << >>
    /\ session = "none"
    /\ closes = 0
    /\ email_attempts = 0
    /\ email_outcome = "none"
    /\ order_count = 0 - 1
    /\ result = "running"

\* a batch of 0..MaxOrders orders: any order at one place, companions elsewhere
Init ==
    \E n \in 0..MaxOrders :
       \E comp \in [1..n -> Companions] :
          \/ n = 0 /\ Start(Null, << >>)
          \/ \E k \in 1..n, rich \in RichBodies :
                Start(Null, BatchOf([i \in 1..n |-> IF i = k THEN rich ELSE comp[i]]))

\* one turn of the loop of create_stickers_from_orders; an exception of
\* _process_single_order leaves create_stickers_from_orders
ProcessOrder ==
    /\ pc = "process"
    /\ idx < Len(orders)
    /\ LET r == process_single_order(local_cities, orders[idx + 1])
       IN  /\ pc' = IF r.raised THEN "raised" ELSE "process"
           /\ stickers' = IF r.raised THEN << >> ELSE stickers \o r.stickers
           /\ warnings' = IF r.skipped THEN Append(warnings, idx + 1) ELSE warnings
    /\ idx' = idx + 1
    /\ UNCHANGED << local_cities_arg, local_cities, orders, draw_idx, pages, page_code,
                    show_at, placements, printed_pages, labels, mainVars >>

\* the loop is over: number the stickers and return the list
CalculateStickerNumbers ==
    /\ pc = "process"
    /\ idx = Len(orders)
    /\ stickers' = calculate_sticker_numbers(stickers)
    /\ pc' = "returned"
    /\ UNCHANGED << local_cities_arg, local_cities, orders, idx, warnings, draw_idx,
                    pages, page_code, show_at, placements, printed_pages, labels,
                    mainVars >>

\* one turn of the loop of _draw_stickers: showPage at a page boundary, then
\* _draw_single_sticker writes the label's text at (x, y) on the open page,
\* which from then on holds drawing code
DrawSticker ==
    /\ main_pc \in {"off", "pdf"}
    /\ pc \in {"returned", "draw"}
    /\ draw_idx < Len(stickers)
    /\ LET p == Placement(AVERY_5160, draw_idx)
       IN  /\ pages' = IF p.new_page THEN pages + 1 ELSE pages
           /\ show_at' = IF p.new_page THEN show_at \cup {draw_idx} ELSE show_at
           /\ placements' = Append(placements, [p EXCEPT !.on_page = pages'])
           /\ labels' = Append(labels, draw_single_sticker(AVERY_5160,
                                           stickers[draw_idx + 1], p.x, p.y))
    /\ page_code' = TRUE
    /\ draw_idx' = draw_idx + 1
    /\ pc' = "draw"
    /\ UNCHANGED << local_cities_arg, local_cities, orders, idx, stickers, warnings,
                    printed_pages, mainVars >>

\* c.save() closes the open page when it holds drawing code; then the report
SavePdf ==
    /\ main_pc \in {"off", "pdf"}
    /\ pc \in {"returned", "draw"}
    /\ draw_idx = Len(stickers)
    /\ pages' = IF page_code THEN pages + 1 ELSE pages
    /\ page_code' = FALSE
    /\ printed_pages' = PrintedPages(Len(stickers))
    /\ pc' = "done"
    /\ UNCHANGED << local_cities_arg, local_cities, orders, idx, stickers, warnings,
                    draw_idx, show_at, placements, labels, mainVars >>

Next == ProcessOrder \/ CalculateStickerNumbers \/ DrawSticker \/ SavePdf

Spec == Init /\ [][Next]_vars

-----------------------------------------------------------------------------
(* Grouping runs: well-formed orders whose names and streets may hold a "|" *)

GroupBodies ==
    { Body(MkCustomer(Absent, PyStr(last)), MkAddress(PyStr(street), PyStr(<< "d" >>)),
           ItemsOf(<< PyInt(q) >>)) :
        last \in { << "a" >>, << "a","|","b" >> },
        street \in { << "c" >>, << "b","|","c" >> },
        q \in 1..MaxQty }

InitGroup ==
    \E n \in 0..MaxGroupOrders :
       \E bs \in [1..n -> GroupBodies] : Start(Null, BatchOf(bs))

SpecGroup == InitGroup /\ [][Next]_vars

-----------------------------------------------------------------------------
(* City runs: a processor built with some city list, and a batch holding one *)
(* city name in every letter case and with whitespace around it              *)

Lombardville == Lombard \o << "v","i","l","l","e" >>
OakPark == << "O","a","k"," ","P","a","r","k" >>

CityConfigs ==
    { Null,
      PyList(<< >>),
      PyList(<< OakPark >>),
      PyList(<< upper(Lombard), OakPark >>) }

CityBases == { << >>, Lombard, GlenEllyn, Wheaton, Lombardville, OakPark, << "L","o","m" >> }

Spaces(n) == [i \in 1..n |-> " "]

\* base in its own case, upper case and lower case, padded left and right
Decorations(base) ==
    { Spaces(l) \o c \o Spaces(r) :
        c \in {base, upper(base), lower(base)}, l \in 0..MaxPad, r \in 0..MaxPad }

RECURSIVE SetToSeq(_)
SetToSeq(S) ==
    IF S = {} THEN << >>
    ELSE LET x == CHOOSE x \in S : TRUE IN << x >> \o SetToSeq(S \ {x})

CityBatch(cities) ==
    BatchOf([i \in 1..Len(cities) |->
               Body(GoodCustomer, MkAddress(ElmSt, cities[i]), ItemsOf(<< PyInt(1) >>))])

InitCity ==
    \E arg \in CityConfigs :
       \/ \E city \in {Null, Absent} : Start(arg, CityBatch(<< city >>))
       \/ \E base \in CityBases :
             LET ds == SetToSeq(Decorations(base))
             IN  Start(arg, CityBatch([i \in DOMAIN ds |-> PyStr(ds[i])]))

SpecCity == InitCity /\ [][Next]_vars

-----------------------------------------------------------------------------
(* Variant runs: one line item with a variant label and a property list *)

WholeBean == << "W","B" >>

VariantTitles ==
    { Absent, Null, PyStr(<< >>), PyStr(DefaultTitle), PyStr(lower(DefaultTitle)),
      PyStr(WholeBean) }

PropNames == { Absent, Null, PyStr(<< "_","h" >>), PyStr(<< "g","_" >>) }
PropValues == { Null, PyStr(<< >>), PyStr(<< "x" >>), PyStr(<< "y" >>) }
PropKinds == { MkProp(n, v) : n \in PropNames, v \in PropValues }

VariantBatch(vt, pl) ==
    BatchOf(<< Body(GoodCustomer, GoodAddress,
                    PyList(<< MkItem(PyInt(1), ProductName(1), vt, pl) >>)) >>)

InitVariant ==
    \E vt \in VariantTitles :
       \/ Start(Null, VariantBatch(vt, Absent))
       \/ \E n \in 0..MaxProps :
             \E ps \in [1..n -> PropKinds] : Start(Null, VariantBatch(vt, PyList(ps)))

SpecVariant == InitVariant /\ [][Next]_vars

-----------------------------------------------------------------------------
(* Layout runs: one order whose single line item has 0..MaxStickers units *)

InitLayout ==
    \E n \in 0..MaxStickers :
       Start(Null, BatchOf(<< Body(GoodCustomer, GoodAddress, ItemsOf(<< PyInt(n) >>)) >>))

SpecLayout == InitLayout /\ [][Next]_vars

-----------------------------------------------------------------------------
(* Label runs: one line item whose variant label and product name hold grind *)
(* phrases in several places and letter cases, or a name long enough to be   *)
(* truncated, delivered locally or shipped                                    *)

MaxNameLen == 43    \* longest product name of the label runs

MediumRoastWholeBean == << "M","e","d","i","u","m"," ","R","o","a","s","t"," ","/"," ","W","h","o","l","e"," ","B","e","a","n" >>

GrindTitles ==
    { Absent,
      PyStr(MediumRoastWholeBean),
      PyStr(<< "w","h","o","l","e"," ","b","e","a","n" >>),
      PyStr(<< "G","r","o","u","n","d"," ","f","o","r"," ","A","u","t","o"," ","D","r","i","p" >>),
      PyStr(<< "G","r","o","u","n","d"," ","A","u","t","o"," ","D","r","i","p" >>),
      PyStr(<< "A","U","T","O"," ","D","R","I","P" >>),
      PyStr(<< "G","r","o","u","n","d"," ","f","o","r"," ","D","r","i","p" >>),
      PyStr(<< "F","r","e","n","c","h"," ","P","r","e","s","s" >>),
      PyStr(<< "G","r","o","u","n","d"," ","f","o","r"," ","F","r","e","n","c","h"," ","P","r","e","s","s" >>),
      PyStr(<< "G","r","o","u","n","d"," ","f","o","r"," ","E","s","p","r","e","s","s","o" >>),
      PyStr(<< "E","s","p","r","e","s","s","o" >>),
      PyStr(<< "D","a","r","k"," ","R","o","a","s","t" >>),
      PyStr(<< "W","h","o","l","e" >>),
      PyStr(<< "1","2","o","z"," ","/"," ","E","s","p","r","e","s","s","o" >>) }

\* a name of n letters that holds no grind phrase
Filler(n) == [i \in 1..n |-> LowerChars[((i - 1) % 26) + 1]]

LabelNames ==
    { Null,
      PyStr(<< "B","l","e","n","d" >>),
      PyStr(<< "W","h","o","l","e"," ","B","e","a","n"," ","B","l","e","n","d" >>),
      PyStr(<< "B","e","a","n"," ","B","l","e","n","d" >>),
      PyStr(<< "E","s","p","r","e","s","s","o"," ","R","o","a","s","t" >>),
      PyStr(<< "F","r","e","n","c","h"," ","P","r","e","s","s"," ","K","i","t" >>),
      PyStr(<< "D","r","i","p" >>) }
    \cup { PyStr(Filler(n)) : n \in (MaxNameLen - 8)..MaxNameLen }

InitLabel ==
    \E vt \in GrindTitles, pn \in LabelNames, city \in {Lombard, OakPark}, q \in 1..MaxQty :
       Start(Null, BatchOf(<< Body(GoodCustomer, MkAddress(ElmSt, PyStr(city)),
                                   PyList(<< MkItem(PyInt(q), pn, vt, Absent) >>)) >>))

SpecLabel == InitLabel /\ [][Next]_vars

-----------------------------------------------------------------------------
(* Name runs: one order whose customer has any first and last name, present, *)
(* missing, None, empty, blank or padded, or no customer entry at all        *)

NameValues ==
    { Absent, Null, PyStr(<< >>), PyStr(<< " " >>), Ann, Lee,
      PyStr(<< " ","A","n","n" >>), PyStr(<< "L","e","e"," " >>) }

NameCustomers ==
    { MkCustomer(f, l) : f, l \in NameValues } \cup { Absent, EmptyDict }

InitName ==
    \E c \in NameCustomers, q \in 1..MaxQty :
       Start(Null, BatchOf(<< Body(c, GoodAddress, ItemsOf(<< PyInt(q) >>)) >>))

SpecName == InitName /\ [][Next]_vars

-----------------------------------------------------------------------------
(* main.py: run_sticker_generation, from the connection to Shopify to the    *)
(* returned path.  What the environment decides (credentials, the answer of  *)
(* the shop, the write of the PDF, the mail) is chosen at the step it bears  *)
(* on.                                                                       *)

ReadyForPickup ==
    << "R","e","a","d","y"," ","F","o","r"," ","P","i","c","k","u","p" >>

\* str.split(sep) for a separator of one character
RECURSIVE split(_, _)
split(s, sep) ==
    IF \E i \in DOMAIN s : s[i] = sep
    THEN LET i == CHOOSE i \in DOMAIN s : s[i] = sep /\ \A j \in 1..(i - 1) : s[j] # sep
         IN  << SubSeq(s, 1, i - 1) >> \o split(SubSeq(s, i + 1, Len(s)), sep)
    ELSE << s >>

\* tag_list = [tag.strip() for tag in tags.split(',') if tag.strip()]
tag_list(tags) ==
    LET parts == split(tags, ",")
    IN  SelectSeq([i \in DOMAIN parts |-> strip(parts[i])], LAMBDA t : t # << >>)

\* ShopifyConnector.filter_orders: the orders without the tag, or a raise
\* (tags is None: None has no split)
RECURSIVE filter_orders(_, _)
filter_orders(os, exclude_tag) ==
    IF os = << >> THEN [raised |-> FALSE, orders |-> << >>]
    ELSE
        LET tags == DictGet(os[1], "tags", PyStr(<< >>))
            rest == filter_orders(Tail(os), exclude_tag)
        IN  IF tags.tag # "str" \/ rest.raised THEN [raised |-> TRUE, orders |-> << >>]
            ELSE IF InList(exclude_tag, tag_list(tags.v)) THEN rest
            ELSE [raised |-> FALSE, orders |-> << os[1] >> \o rest.orders]

\* a variant that mails whatever the argument says
EmailWanted_always(flag) == TRUE

\* "if auto_email:"
EmailWanted(flag) == flag

\* the call of run_sticker_generation: nothing is connected, processed or drawn
StartMain(shop, email) ==
    /\ local_cities_arg = Null
    /\ local_cities = << >>
    /\ orders = << >>
    /\ pc = "idle"
    /\ idx = 0
    /\ stickers = << >>
    /\ warnings = << >>
    /\ draw_idx = 0
    /\ pages = 0
    /\ page_code = FALSE
    /\ show_at = {}
    /\ placements = << >>
    /\ printed_pages = 0 - 1
    /\ labels = << >>
    /\ main_pc = "start"
    /\ auto_email = email
    /\ shop_orders = shop
    /\ session = "none"
    /\ closes = 0
    /\ email_attempts = 0
    /\ email_outcome = "none"
    /\ order_count = 0 - 1
    /\ result = "running"

\* connector.close() followed by "return None"
CloseAndReturnNone ==
    /\ session' = "closed"
    /\ closes' = closes + 1
    /\ result' = "none"
    /\ main_pc' = "returned"

\* connector = ShopifyConnector(): the session is activated, or the
\* credentials are missing and ValueError is raised before there is one
Connect ==
    /\ main_pc = "start"
    /\ \E credentials \in BOOLEAN :
          /\ session' = IF credentials THEN "open" ELSE session
          /\ main_pc' = IF credentials THEN "connected" ELSE "except"
    /\ UNCHANGED << local_cities_arg, local_cities, orders, pc, idx, stickers, warnings,
                    draw_idx, pages, page_code, show_at, placements, printed_pages,
                    labels, auto_email, shop_orders, closes, email_attempts,
                    email_outcome, order_count, result >>

\* orders = connector.get_unfulfilled_orders(): the shop answers or the request
\* raises; "if not orders" closes the session and returns None
GetOrders ==
    /\ main_pc = "connected"
    /\ \E answered \in BOOLEAN :
          IF ~answered
          THEN main_pc' = "except" /\ UNCHANGED << session, closes, result >>
          ELSE IF shop_orders = << >>
          THEN CloseAndReturnNone
          ELSE main_pc' = "fetched" /\ UNCHANGED << session, closes, result >>
    /\ UNCHANGED << local_cities_arg, local_cities, orders, pc, idx, stickers, warnings,
                    draw_idx, pages, page_code, show_at, placements, printed_pages,
                    labels, auto_email, shop_orders, email_attempts, email_outcome,
                    order_count >>

\* filtered_orders = connector.filter_orders(orders, "Ready For Pickup"); "if
\* not filtered_orders" closes and returns None; otherwise OrderProcessor() is
\* built and create_stickers_from_orders(filtered_orders) is entered
FilterOrders ==
    /\ main_pc = "fetched"
    /\ LET f == filter_orders(shop_orders, ReadyForPickup)
       IN  IF f.raised
           THEN /\ main_pc' = "except"
                /\ UNCHANGED << session, closes, result, orders, local_cities, pc >>
           ELSE IF f.orders = << >>
           THEN CloseAndReturnNone /\ UNCHANGED << orders, local_cities, pc >>
           ELSE /\ orders' = f.orders
                /\ local_cities' = OrderProcessorInit(Null)
                /\ pc' = "process"
                /\ main_pc' = "processing"
                /\ UNCHANGED << session, closes, result >>
    /\ UNCHANGED << local_cities_arg, idx, stickers, warnings, draw_idx, pages, page_code,
                    show_at, placements, printed_pages, labels, auto_email, shop_orders,
                    email_attempts, email_outcome, order_count >>

\* "if not stickers" closes and returns None; otherwise PDFGenerator is built
\* and generate_pdf(stickers) is entered
CheckStickers ==
    /\ main_pc = "processing"
    /\ pc = "returned"
    /\ IF stickers = << >>
       THEN CloseAndReturnNone
       ELSE main_pc' = "pdf" /\ UNCHANGED << session, closes, result >>
    /\ UNCHANGED << local_cities_arg, local_cities, orders, pc, idx, stickers, warnings,
                    draw_idx, pages, page_code, show_at, placements, printed_pages,
                    labels, auto_email, shop_orders, email_attempts, email_outcome,
                    order_count >>

\* generate_pdf raises: the file cannot be written
PdfFails ==
    /\ main_pc = "pdf"
    /\ pc \in {"returned", "draw"}
    /\ pc' = "failed"
    /\ UNCHANGED << local_cities_arg, local_cities, orders, idx, stickers, warnings,
                    draw_idx, pages, page_code, show_at, placements, printed_pages,
                    labels, mainVars >>

\* "except Exception": the error is printed and sys.exit(1) ends the process
HandleException ==
    /\ \/ main_pc = "except"
       \/ main_pc = "processing" /\ pc = "raised"
       \/ main_pc = "pdf" /\ pc = "failed"
    /\ result' = "exit"
    /\ main_pc' = "exited"
    /\ UNCHANGED << local_cities_arg, local_cities, orders, pc, idx, stickers, warnings,
                    draw_idx, pages, page_code, show_at, placements, printed_pages,
                    labels, auto_email, shop_orders, session, closes, email_attempts,
                    email_outcome, order_count >>

\* connector.close() after generate_pdf has returned the path
CloseConnection ==
    /\ main_pc = "pdf"
    /\ pc = "done"
    /\ session' = "closed"
    /\ closes' = closes + 1
    /\ main_pc' = "summary"
    /\ UNCHANGED << local_cities_arg, local_cities, orders, pc, idx, stickers, warnings,
                    draw_idx, pages, page_code, show_at, placements, printed_pages,
                    labels, auto_email, shop_orders, email_attempts, email_outcome,
                    order_count, result >>

\* the e-mail block: EmailSender() raises ("error", send_pdf is not called),
\* or send_pdf(pdf_path, order_count=len(stickers), ...) returns True ("sent")
\* or False ("refused"); the inner except keeps any exception inside the block
SendEmail ==
    /\ main_pc = "summary"
    /\ IF EmailWanted(auto_email)
       THEN \E outcome \in {"sent", "refused", "error"} :
               /\ email_attempts' = email_attempts + 1
               /\ email_outcome' = outcome
               /\ order_count' = IF outcome = "error" THEN order_count ELSE Len(stickers)
       ELSE UNCHANGED << email_attempts, email_outcome, order_count >>
    /\ main_pc' = "next_steps"
    /\ UNCHANGED << local_cities_arg, local_cities, orders, pc, idx, stickers, warnings,
                    draw_idx, pages, page_code, show_at, placements, printed_pages,
                    labels, auto_email, shop_orders, session, closes, result >>

\* return pdf_path
ReturnPath ==
    /\ main_pc = "next_steps"
    /\ result' = "path"
    /\ main_pc' = "returned"
    /\ UNCHANGED << local_cities_arg, local_cities, orders, pc, idx, stickers, warnings,
                    draw_idx, pages, page_code, show_at, placements, printed_pages,
                    labels, auto_email, shop_orders, session, closes, email_attempts,
                    email_outcome, order_count >>

NextMain ==
    \/ Connect \/ GetOrders \/ FilterOrders
    \/ ProcessOrder \/ CalculateStickerNumbers \/ CheckStickers
    \/ DrawSticker \/ SavePdf \/ PdfFails
    \/ CloseConnection \/ SendEmail \/ ReturnPath
    \/ HandleException

\* the orders of the shop: delivered, of two units, without an address, with a
\* null customer; untagged, tagged for pickup, or with null tags
ShopTags ==
    { Absent, Null, PyStr(ReadyForPickup),
      PyStr(<< " ","v","i","p"," ","," >> \o ReadyForPickup \o << " " >>) }

ShopBodies ==
    { Body(GoodCustomer, GoodAddress, ItemsOf(<< PyInt(1) >>)),
      Body(MkCustomer(Bob, Lee), GoodAddress, ItemsOf(<< PyInt(2) >>)),
      Body(GoodCustomer, Absent, ItemsOf(<< PyInt(1) >>)),
      Body(Null, GoodAddress, ItemsOf(<< PyInt(1) >>)) }

\* order.to_dict() of the shop's k-th order
ShopOrder(k, body, tags) == PyDict(OrderAt(k, body).v @@ [tags |-> tags])

InitMain ==
    \E n \in 0..MaxOrders, email \in BOOLEAN :
       \E bs \in [1..n -> ShopBodies], ts \in [1..n -> ShopTags] :
          StartMain([k \in 1..n |-> ShopOrder(k, bs[k], ts[k])], email)

SpecMain == InitMain /\ [][NextMain]_vars


-----------------------------------------------------------------------------
(* Properties *)

\* create_stickers_from_orders has returned its list
Returned == pc \in {"returned", "draw", "done"}

LineItems(o) == o.v.line_items
Customer(o) == o.v.customer
Shipping(o) == o.v.shipping_address

\* the order reaches the line-item loop: its customer can be read, and neither
\* the shipping address nor the line-item list is missing or empty
Processed(o) == Customer(o).tag # "null" /\ Truthy(Shipping(o)) /\ Truthy(LineItems(o))

\* the stickers of line item j of order k (orders and items are named by position)
StickersOfItem(k, j) ==
    { i \in 1..Len(stickers) :
        stickers[i].order_name = OrderName(k) /\ stickers[i].product_name = ProductName(j) }

StickersOfOrder(k) == { i \in 1..Len(stickers) : stickers[i].order_name = OrderName(k) }

\* no field of the order has a value of the wrong kind
WellFormedProps(pl) ==
    \/ pl.tag = "absent"
    \/ /\ pl.tag = "list"
       /\ \A n \in 1..Len(pl.v) :
            Truthy(pl.v[n].v.value) => pl.v[n].v.name.tag \in {"str", "absent"}

WellFormed(o) ==
    /\ Customer(o).tag # "null"
    /\ Processed(o) =>
         \A j \in 1..Len(LineItems(o).v) :
            /\ LineItems(o).v[j].v.quantity.tag \in {"int", "absent"}
            /\ WellFormedProps(LineItems(o).v[j].v.properties)

\* C1: every line item with integer quantity q of an order that is not skipped
\* yields exactly max(q, 0) stickers, each of quantity 1; a quantity of zero or
\* below yields none, raises nothing and leaves the other items their stickers
C1_UnitsPerLineItem ==
    /\ Returned =>
         \A k \in 1..Len(orders) :
            Processed(orders[k]) =>
              \A j \in 1..Len(LineItems(orders[k]).v) :
                 LET q == LineItems(orders[k]).v[j].v.quantity
                 IN  q.tag = "int" =>
                       /\ Cardinality(StickersOfItem(k, j)) = (IF q.v > 0 THEN q.v ELSE 0)
                       /\ \A i \in StickersOfItem(k, j) : stickers[i].quantity = 1
    /\ pc = "raised" => ~WellFormed(orders[idx])

C1_Witness ==
    /\ Returned
    /\ \E k \in 1..Len(orders) :
         /\ Processed(orders[k])
         /\ Len(LineItems(orders[k]).v) = 2
         /\ LineItems(orders[k]).v[1].v.quantity = PyInt(0 - 1)
         /\ LineItems(orders[k]).v[2].v.quantity = PyInt(2)
         /\ StickersOfItem(k, 1) = {}
         /\ Cardinality(StickersOfItem(k, 2)) = 2

\* an order the processor skips: its customer can be read and its shipping
\* address or its line-item list is missing or empty
SkippedOrder(o) == Customer(o).tag # "null" /\ ~(Truthy(Shipping(o)) /\ Truthy(LineItems(o)))

RECURSIVE WithoutSkipped(_)
WithoutSkipped(os) ==
    IF os = << >> THEN << >>
    ELSE (IF SkippedOrder(os[1]) THEN << >> ELSE << os[1] >>) \o WithoutSkipped(Tail(os))

\* C6: orders without a shipping address or without line items yield no sticker
\* and are reported, and the returned list (contents, order, numbering) is the
\* list returned for the batch with those orders taken out
C6_SkippedOrdersLeaveNoTrace ==
    LET r == create_stickers_from_orders(local_cities, WithoutSkipped(orders))
    IN  /\ Returned =>
             /\ ~r.raised
             /\ r.stickers = stickers
             /\ \A k \in 1..Len(orders) :
                  SkippedOrder(orders[k]) =>
                     /\ StickersOfOrder(k) = {}
                     /\ \E n \in 1..Len(warnings) : warnings[n] = k
        /\ pc = "raised" => r.raised

C6_Witness ==
    /\ Returned
    /\ Len(orders) = 2
    /\ SkippedOrder(orders[1])
    /\ Shipping(orders[1]).tag = "dict0"
    /\ StickersOfOrder(1) = {}
    /\ StickersOfOrder(2) # {}
    /\ warnings = << 1 >>

\* C7: create_stickers_from_orders never raises for a malformed order
C7_NeverRaises == pc # "raised"

\* the address group of the specification: equal name, first address line and city
SameAddress(s, t) ==
    /\ s.customer_name = t.customer_name
    /\ s.address_line1 = t.address_line1
    /\ s.city = t.city

\* C2: within every address group of N stickers the sticker numbers read in
\* list order are 1..N and every total_for_address is N
C2_GroupNumbering ==
    Returned =>
      \A i \in 1..Len(stickers) :
         LET G == { j \in 1..Len(stickers) : SameAddress(stickers[j], stickers[i]) }
         IN  /\ stickers[i].total_for_address = Cardinality(G)
             /\ stickers[i].sticker_number = Cardinality({ j \in G : j <= i })

\* C3: two stickers are filed under one grouping key exactly when their name,
\* first address line and city are equal field by field
C3_GroupIffSameTuple ==
    Returned =>
      \A i, j \in 1..Len(stickers) :
         (AddressKey(stickers[i]) = AddressKey(stickers[j]))
            <=> SameAddress(stickers[i], stickers[j])

\* the city list the constructor was given (the default list when it was given none)
ConfiguredCities ==
    IF local_cities_arg.tag = "list" THEN local_cities_arg.v ELSE LOCAL_DELIVERY_CITIES

ConfiguredLocal(city) ==
    /\ city.tag = "str"
    /\ \E n \in 1..Len(ConfiguredCities) : lower(ConfiguredCities[n]) = lower(strip(city.v))

\* C4: requires_shipping holds exactly when the trimmed, lower-cased city is not
\* in the city set given to the constructor, the empty set included
C4_ShippingIffNotConfigured ==
    Returned =>
      \A i \in 1..Len(stickers) :
         stickers[i].requires_shipping = ~ConfiguredLocal(stickers[i].city)

PaddedLowerLombard == << " ","l","o","m","b","a","r","d"," " >>
UpperLombard == << "L","O","M","B","A","R","D" >>

\* C5: with the default city list the classification ignores letter case and
\* surrounding whitespace: Lombard, " lombard " and LOMBARD are local,
\* Lombardville is not
C5_CityMatchIgnoresCaseAndPadding ==
    (Returned /\ local_cities_arg.tag = "null") =>
      /\ \A i, j \in 1..Len(stickers) :
            LET a == stickers[i].city
                b == stickers[j].city
            IN  (a.tag = "str" /\ b.tag = "str" /\ lower(strip(a.v)) = lower(strip(b.v)))
                   => stickers[i].requires_shipping = stickers[j].requires_shipping
      /\ \A i \in 1..Len(stickers) :
            /\ stickers[i].city \in {PyStr(Lombard), PyStr(PaddedLowerLombard), PyStr(UpperLombard)}
                 => ~stickers[i].requires_shipping
            /\ stickers[i].city = PyStr(Lombardville) => stickers[i].requires_shipping

C5_Witness ==
    /\ Returned
    /\ local_cities_arg.tag = "null"
    /\ \E i, j, k \in 1..Len(stickers) :
         /\ stickers[i].city = PyStr(PaddedLowerLombard)
         /\ stickers[j].city = PyStr(UpperLombard)
         /\ stickers[k].city = PyStr(Lombard)
         /\ ~stickers[i].requires_shipping
         /\ ~stickers[j].requires_shipping
         /\ ~stickers[k].requires_shipping

\* the label and the property values the claim lets into variant_info
QualifyingLabel(item) ==
    LET vt == item.v.variant_title
    IN  IF vt.tag = "str" /\ vt.v # << >> /\ vt.v # DefaultTitle THEN << vt.v >> ELSE << >>

QualifyingProp(prop) ==
    /\ prop.v.value.tag = "str"
    /\ prop.v.value.v # << >>
    /\ ~(prop.v.name.tag = "str" /\ Len(prop.v.name.v) > 0 /\ prop.v.name.v[1] = "_")

QualifyingValues(item) ==
    LET pl == item.v.properties
        kept == IF pl.tag = "list" THEN SelectSeq(pl.v, QualifyingProp) ELSE << >>
    IN  [n \in 1..Len(kept) |-> kept[n].v.value.v]

\* C8: variant_info is the " / "-joined label (unless empty or "Default Title")
\* followed by the non-empty values of the properties whose name does not start
\* with an underscore, in list order, and the empty string when nothing qualifies
C8_VariantInfo ==
    Returned =>
      \A i \in 1..Len(stickers) :
         LET item == LineItems(orders[1]).v[1]
             parts == QualifyingLabel(item) \o QualifyingValues(item)
         IN  /\ stickers[i].variant_info = join(VariantSep, parts)
             /\ parts = << >> => stickers[i].variant_info = << >>

C8_Witness ==
    /\ Returned
    /\ Len(stickers) = 1
    /\ LineItems(orders[1]).v[1].v.properties =
          PyList(<< MkProp(PyStr(<< "_","h" >>), PyStr(<< "x" >>)),
                    MkProp(PyStr(<< "g","_" >>), PyStr(<< "y" >>)) >>)
    /\ stickers[1].variant_info = << "W","B"," ","/"," ","y" >>

\* C9: the sticker at index i lies on page i div 30, row (i mod 30) div 3,
\* column (i mod 30) mod 3, the sheet filling left to right, then top to bottom
C9_GridPosition ==
    \A n \in 1..Len(placements) :
       LET p == placements[n]
           i == n - 1
       IN  /\ p.index = i
           /\ p.on_page = i \div 30
           /\ p.row = (i % 30) \div 3
           /\ p.col = (i % 30) % 3
           /\ i = 29 => (p.on_page = 0 /\ p.row = 9 /\ p.col = 2)
           /\ i = 30 => (p.on_page = 1 /\ p.row = 0 /\ p.col = 0)
           /\ (n > 1 /\ placements[n - 1].on_page = p.on_page) =>
                LET b == placements[n - 1]
                IN  \/ p.row = b.row /\ p.col = b.col + 1 /\ p.x > b.x /\ p.y = b.y
                    \/ p.row = b.row + 1 /\ p.col = 0 /\ b.col = 2 /\ p.y < b.y

C9_Witness ==
    /\ Len(placements) >= 31
    /\ placements[30].on_page = 0 /\ placements[30].row = 9 /\ placements[30].col = 2
    /\ placements[31].on_page = 1 /\ placements[31].row = 0 /\ placements[31].col = 0

CeilDiv(n, d) == (n + d - 1) \div d

\* C10: showPage is called exactly at the indices i > 0 with i mod 30 = 0, the
\* saved document has ceil(n / 30) pages, none for no sticker, and generate_pdf
\* prints that number
C10_PageCount ==
    /\ show_at = { i \in 1..(draw_idx - 1) : i % 30 = 0 }
    /\ pc = "done" =>
         /\ pages = CeilDiv(Len(stickers), 30)
         /\ printed_pages = pages
         /\ Len(stickers) = 0 => pages = 0
         /\ Len(stickers) \in 1..30 => pages = 1
         /\ Len(stickers) = 31 => pages = 2

C10_Witness ==
    /\ pc = "done"
    /\ Len(stickers) = 31
    /\ show_at = {30}
    /\ pages = 2
    /\ printed_pages = 2

-----------------------------------------------------------------------------
(* The grind type *)

\* the four grind types, phrase by phrase of GRIND_TYPES
CanonicalForm ==
    << GrindWholeBean, GrindAutoDrip, GrindAutoDrip, GrindAutoDrip, GrindAutoDrip,
       GrindFrenchPress, GrindFrenchPress, GrindEspresso, GrindEspresso >>

\* the lower-cased text of variant_info and product_name of a sticker
GrindText(s) == lower(s.variant_info \o << " " >> \o Format(s.product_name))

\* the phrases of the list that occur in a text
Occurring(text) == {i \in DOMAIN GRIND_TYPES : contains(text, lower(GRIND_TYPES[i]))}

\* C11: the grind type of every drawn label is the canonical form of the first
\* phrase of the list that occurs in the lower-cased text of variant_info and
\* product_name, one of Whole Bean, French Press, Ground Auto Drip and Ground
\* Espresso; it is none when no phrase occurs; and variant_info
\* "Medium Roast / Whole Bean" gives "Whole Bean" under every product name.
C11_FirstPhraseCanonical ==
    \A k \in DOMAIN labels :
       LET s == stickers[k]
           occ == Occurring(GrindText(s))
           g == labels[k].grind_type
       IN  /\ occ = {} => g.tag = "null"
           /\ \A i \in occ :
                 (\A j \in occ : i <= j) => g.tag = "str" /\ g.v = CanonicalForm[i]
           /\ g.tag = "str" =>
                 g.v \in {GrindWholeBean, GrindFrenchPress, GrindAutoDrip, GrindEspresso}
           /\ s.variant_info = MediumRoastWholeBean =>
                 g.tag = "str" /\ g.v = GrindWholeBean

\* a label whose text holds phrases of two different grind types, one whose
\* text holds none, and the "Medium Roast / Whole Bean" label under a product
\* name that itself names another grind
C11_Witness ==
    /\ pc = "done"
    /\ \E k \in DOMAIN labels :
          \/ \E i, j \in Occurring(GrindText(stickers[k])) :
                CanonicalForm[i] # CanonicalForm[j]
          \/ /\ stickers[k].variant_info = MediumRoastWholeBean
             /\ contains(lower(Format(stickers[k].product_name)), espresso)
    /\ \E k \in DOMAIN labels :
          /\ stickers[k].variant_info = MediumRoastWholeBean
          /\ contains(lower(Format(stickers[k].product_name)), espresso)
          /\ labels[k].grind_type.tag = "str"

-----------------------------------------------------------------------------
(* The text of a label *)

\* the drawString calls of the k-th label, and the place of its product line
LinesOf(k) == labels[k].lines
ProductAt(k) == IF stickers[k].requires_shipping THEN 5 ELSE 4

\* "{quantity}- {product_name}" of a sticker, before any truncation
FullProductLine(s) == NatStr(s.quantity) \o << "-", " " >> \o Format(s.product_name)

\* C12: the product line drawn on a label is "{quantity}- {product_name}"
\* unchanged when that has at most 40 characters, otherwise its first 37
\* characters followed by "..."; it never has more than 40 characters, and a
\* line of 45 characters is drawn with exactly 40.
C12_ProductLineTruncation ==
    \A k \in DOMAIN labels :
       LET full == FullProductLine(stickers[k])
           drawn == LinesOf(k)[ProductAt(k)].text
       IN  /\ Len(full) <= 40 => drawn = full
           /\ Len(full) > 40 => drawn = SubSeq(full, 1, 37) \o << ".", ".", "." >>
           /\ Len(drawn) <= 40
           /\ Len(full) = 45 => Len(drawn) = 40

\* a drawn label whose full product line has 45 characters
C12_Witness ==
    \E k \in DOMAIN labels :
       /\ Len(FullProductLine(stickers[k])) = 45
       /\ Len(LinesOf(k)[ProductAt(k)].text) = 40

\* the baseline of the first text line of a label that is not shipped
FirstBaseline(k) == placements[k].y + AVERY_5160.label_height - TextTop

\* C13: the lines of a label are drawn from the top down in this order: the
\* "**SHIP**" line exactly when requires_shipping; the customer name, with the
\* bold counter "{sticker_number}/{total_for_address}" on the same baseline;
\* the address line "{address_line1} {city}"; the product line; a bold grind
\* line exactly when extract_grind_type returns a value.  Every line after the
\* SHIP line stands exactly one line height lower than on a label without it.
C13_LabelLines ==
    \A k \in DOMAIN labels :
       LET s == stickers[k]
           l == LinesOf(k)
           o == IF s.requires_shipping THEN 1 ELSE 0
           g == extract_grind_type(s.variant_info, s.product_name)
           full == FullProductLine(s)
           base == FirstBaseline(k) - o * LineHeight
       IN  /\ Len(l) = o + 4 + (IF g.tag = "str" THEN 1 ELSE 0)
           /\ s.requires_shipping =>
                 /\ l[1].text = << "*","*","S","H","I","P","*","*" >>
                 /\ l[1].y = FirstBaseline(k)
           /\ l[o + 1].text = s.customer_name /\ l[o + 1].y = base
           /\ l[o + 2].text = NatStr(s.sticker_number) \o << "/" >>
                                 \o NatStr(s.total_for_address)
           /\ l[o + 2].bold /\ l[o + 2].y = l[o + 1].y
           /\ l[o + 3].text = Format(s.address_line1) \o << " " >> \o Format(s.city)
           /\ l[o + 3].y = base - LineHeight
           /\ l[o + 4].text = (IF Len(full) > 40
                               THEN SubSeq(full, 1, 37) \o << ".", ".", "." >> ELSE full)
           /\ l[o + 4].y = base - 2 * LineHeight
           /\ g.tag = "str" =>
                 /\ l[o + 5].text = g.v /\ l[o + 5].bold
                 /\ l[o + 5].y < l[o + 4].y
           /\ \A i, j \in DOMAIN l : i < j => l[j].y <= l[i].y

\* a shipped label with a grind line whose counter is not "1/1"
C13_Witness ==
    \E k \in DOMAIN labels :
       /\ stickers[k].requires_shipping
       /\ Len(LinesOf(k)) = 6
       /\ stickers[k].sticker_number # stickers[k].total_for_address

-----------------------------------------------------------------------------
(* The label origin *)

\* C14: the origin of every label is x = left_margin + col * (label_width +
\* column_gap), with the 0.157 inch correction added for column 2 and for no
\* other column, and y = page_height - top_margin - row * (label_height +
\* row_gap) - label_height; labels of one column share x and labels of one row
\* share y, on whatever page they are.
C14_LabelOrigin ==
    \A n \in DOMAIN placements :
       LET p == placements[n]
           A == AVERY_5160
           grid_x == A.left_margin + p.col * (A.label_width + A.column_gap)
       IN  /\ p.col = 2 => p.x = grid_x + (157 * Inch) \div 1000
           /\ p.col \in {0, 1} => p.x = grid_x
           /\ p.y = A.page_height - A.top_margin
                      - p.row * (A.label_height + A.row_gap) - A.label_height
           /\ \A m \in DOMAIN placements :
                 LET q == placements[m]
                 IN  /\ q.col = p.col => q.x = p.x
                     /\ q.row = p.row => q.y = p.y

\* the third column has been reached on the first page and on the second
C14_Witness ==
    \E m, n \in DOMAIN placements :
       /\ placements[m].on_page = 0 /\ placements[n].on_page = 1
       /\ placements[m].col = 2 /\ placements[n].col = 2
       /\ placements[m].x = placements[n].x

-----------------------------------------------------------------------------
(* The customer name *)

\* a name that is there: absent and None count as no name
NameText(v) == IF v.tag = "str" THEN v.v ELSE << >>

\* the claimed customer_name of an order
ClaimedName(o) ==
    LET c == Customer(o)
        joined == IF c.tag = "dict"
                  THEN strip(NameText(c.v.first_name) \o << " " >> \o NameText(c.v.last_name))
                  ELSE << >>
    IN  IF joined = << >> THEN UnknownCustomer ELSE joined

\* C15: customer_name of every emitted sticker is the first and the last name
\* of its customer joined by one space and trimmed, the only present name when
\* the other is empty, and "Unknown Customer" whenever the customer or both of
\* its names are absent or blank; it is never the empty string.
C15_CustomerName ==
    (Returned /\ Len(orders) = 1) =>
       \A k \in DOMAIN stickers :
          /\ stickers[k].customer_name = ClaimedName(orders[1])
          /\ stickers[k].customer_name # << >>

\* C16: when variant_info itself holds a phrase of the list, the grind type of
\* the label is the canonical form of a phrase that occurs in variant_info,
\* whatever product_name holds; and a phrase counts only if it occurs inside
\* variant_info or inside product_name, never across the two.
C16_VariantInfoFirst ==
    \A k \in DOMAIN labels :
       LET s == stickers[k]
           in_variant == Occurring(lower(s.variant_info))
           in_name == Occurring(lower(Format(s.product_name)))
           g == labels[k].grind_type
       IN  /\ in_variant # {} =>
                 g.tag = "str" /\ \E i \in in_variant : g.v = CanonicalForm[i]
           /\ g.tag = "str" => in_variant \cup in_name # {}

-----------------------------------------------------------------------------
(* The daily run *)

\* C17: the order_count given to send_pdf, which the mail shows as "Orders
\* processed", is the number of filtered orders, whatever their units and items.
C17_OrderCountIsOrders ==
    order_count # 0 - 1 => order_count = Len(orders)

\* the run is over: the function has returned or the process has exited
Over == result # "running"

\* C18: once the session has been opened, connector.close has been called
\* exactly once by the time the function returns or the process exits, on every
\* path; and it is never called twice.
C18_SessionClosedOnce ==
    /\ closes <= 1
    /\ (Over /\ session # "none") => (session = "closed" /\ closes = 1)

\* C19: the mail is attempted at most once, only with auto_email true and only
\* after generate_pdf has written a PDF from a non-empty sticker list; after an
\* attempt, whatever came of it, the run does not exit with an error, and when
\* it is over it has returned the path.
C19_EmailOnceAndHarmless ==
    /\ email_attempts <= 1
    /\ email_attempts = 1 =>
          /\ auto_email
          /\ pc = "done" /\ stickers # << >> /\ printed_pages >= 1
          /\ email_outcome \in {"sent", "refused", "error"}
          /\ result # "exit"
          /\ Over => result = "path"
    /\ email_attempts = 0 => email_outcome = "none" /\ order_count = 0 - 1
    /\ (result = "path" /\ auto_email) => email_attempts = 1

\* the run has returned the path after EmailSender raised
C19_Witness ==
    result = "path" /\ email_attempts = 1 /\ email_outcome = "error"

\* the rectangles of two labels share more than an edge
Overlap(p, q) ==
    /\ p.x < q.x + AVERY_5160.label_width /\ q.x < p.x + AVERY_5160.label_width
    /\ p.y < q.y + AVERY_5160.label_height /\ q.y < p.y + AVERY_5160.label_height

\* C20: on the Avery 5160 grid, third-column correction included, the
\* rectangle [x, x + label_width] x [y, y + label_height] of every drawn label
\* lies inside the page, and two different stickers of one page neither share
\* a slot nor have overlapping rectangles.
C20_LabelsInsidePageAndApart ==
    \A m \in DOMAIN placements :
       LET p == placements[m]
       IN  /\ 0 <= p.x /\ p.x + AVERY_5160.label_width <= AVERY_5160.page_width
           /\ 0 <= p.y /\ p.y + AVERY_5160.label_height <= AVERY_5160.page_height
           /\ \A n \in DOMAIN placements :
                 LET q == placements[n]
                 IN  (m # n /\ q.on_page = p.on_page) =>
                        /\ ~(q.row = p.row /\ q.col = p.col)
                        /\ ~Overlap(p, q)

\* a full first sheet, whose last label stands in the corrected column of the
\* bottom row, and a label on the next sheet
C20_Witness ==
    /\ Len(placements) > AVERY_5160.columns * AVERY_5160.rows
    /\ \E m \in DOMAIN placements :
          /\ placements[m].on_page = 0
          /\ placements[m].col = 2 /\ placements[m].row = 9
          /\ placements[m].x + AVERY_5160.label_width > AVERY_5160.page_width - Inch

====
